---- MODULE Spec2Model ----
(***************************************************************************)
(* Model of the migration orchestration core of supabase-cloner:           *)
(*   MigrationEngine       (migration engine core, 10-phase pipeline)      *)
(*   ErrorRecoveryEngine   (src/lib/error-recovery.ts)                     *)
(*   InputValidator        (security-client)                               *)
(*                                                                         *)
(* JavaScript runs every continuation to completion.  The model keeps that *)
(* discipline with the variable busy: while a job is inside a synchronous  *)
(* continuation (between two suspensions on a timer or on I/O) busy holds  *)
(* its id and nothing else runs; the intermediate states are those a       *)
(* synchronous event listener observes (every updateProgress emits         *)
(* migration:progress with the job object).                                *)
(*                                                                         *)
(* Percentages are kept in hundredths of a percent (100% = 10000) because  *)
(* the code computes fractional values (35 + i * 0.25).                    *)
(***************************************************************************)
EXTENDS Integers, Sequences, FiniteSets, TLC

\* ---------------------------------------------------------------- bounds
MaxBuckets == 2
MaxFunctions == 1
MaxCancels == 2

\* ------------------------------------------------------ program constants
maxConcurrentMigrations == 5
maxAttempts == 30
maxRetriesMutant == 3 + 1
maxRetries == 3
keepCheckpointsMutant == 10 + 1
keepCheckpoints == 10

P(x) == x * 100

Phases ==
  << "preparation", "schema_migration", "data_migration", "storage_migration",
     "configuration_migration", "edge_functions_migration", "security_migration",
     "realtime_setup", "validation", "cutover" >>

PhaseSet == { Phases[k] : k \in 1..Len(Phases) }

JobIds == 1..(maxConcurrentMigrations + 1)

\* Message classes of a thrown Error, by the keyword the classifier looks for.
Messages == { "timeout", "permission", "conflict", "not found", "network", "other" }

determineErrorCode(msg) ==
  CASE msg = "timeout"    -> "CONNECTION_TIMEOUT"
    [] msg = "permission" -> "PERMISSION_DENIED"
    [] msg = "conflict"   -> "RESOURCE_CONFLICT"
    [] msg = "not found"  -> "RESOURCE_NOT_FOUND"
    [] msg = "network"    -> "NETWORK_ERROR"
    [] OTHER              -> "UNKNOWN_ERROR"

\* The severity classifier looks for upper-case keywords; a message of the
\* classes above holds none of them.
determineSeverity(msg) ==
  CASE msg \in { "CRITICAL", "FATAL" }     -> "critical"
    [] msg \in { "CONNECTION", "TIMEOUT" } -> "high"
    [] msg \in { "PERMISSION", "AUTH" }    -> "medium"
    [] OTHER                               -> "high"

VARIABLE now         \* the clock (Date.now()), in ms

createMigrationError(msg, phase) ==
  [ phase |-> phase, severity |-> determineSeverity(msg),
    error_code |-> determineErrorCode(msg), message |-> msg, timestamp |-> now ]

NoFault == [ phase |-> "", severity |-> "", error_code |-> "", message |-> "",
             timestamp |-> 0 ]

\* ------------------------------------------------------- input validation
\* data_filters and exclude_tables are "absent", "valid" or "invalid": the
\* per-entry regular-expression checks are kept as their outcome.
validateMigrationConfigMutant(c) ==
  { e \in { "Invalid clone_type", "Invalid target_region",
            "parallel_threads must be between 1 and 20",
            "batch_size must be between 100 and 10000",
            "Invalid data_filters", "Invalid exclude_tables" } :
      \/ e = "Invalid clone_type"
           /\ c.clone_type \notin { "full_clone", "schema_only", "data_subset" }
      \/ e = "Invalid target_region" /\ c.target_region = ""
      \/ e = "parallel_threads must be between 1 and 20"
           /\ (c.parallel_threads = 0 \/ c.parallel_threads < 1)
      \/ e = "batch_size must be between 100 and 10000"
           /\ (c.batch_size = 0 \/ c.batch_size < 100 \/ c.batch_size > 10000)
      \/ e = "Invalid data_filters" /\ c.data_filters = "invalid"
      \/ e = "Invalid exclude_tables" /\ c.exclude_tables = "invalid" }

\* The set of validation errors; the configuration is valid iff it is empty.
validateMigrationConfig(c) ==
  { e \in { "Invalid clone_type", "Invalid target_region",
            "parallel_threads must be between 1 and 20",
            "batch_size must be between 100 and 10000",
            "Invalid data_filters", "Invalid exclude_tables" } :
      \/ e = "Invalid clone_type"
           /\ c.clone_type \notin { "full_clone", "schema_only", "data_subset" }
      \/ e = "Invalid target_region" /\ c.target_region = ""
      \/ e = "parallel_threads must be between 1 and 20"
           /\ (c.parallel_threads = 0 \/ c.parallel_threads < 1 \/ c.parallel_threads > 20)
      \/ e = "batch_size must be between 100 and 10000"
           /\ (c.batch_size = 0 \/ c.batch_size < 100 \/ c.batch_size > 10000)
      \/ e = "Invalid data_filters" /\ c.data_filters = "invalid"
      \/ e = "Invalid exclude_tables" /\ c.exclude_tables = "invalid" }

isValidProjectName(name) == name # "bad name!"

isValidOrganizationId(id) == id # "not-a-uuid"

\* -------------------------------------------------------- recovery engine
StrategyIds ==
  { "connection-retry", "resource-cleanup", "permission-escalation",
    "data-integrity-repair", "partial-rollback", "graceful-degradation" }

recoveryStrategies ==
  [ id \in StrategyIds |->
      CASE id = "connection-retry" ->
             [ applicableErrors |-> { "CONNECTION_TIMEOUT", "CONNECTION_REFUSED", "NETWORK_ERROR" },
               maxRetries |-> 5, backoffStrategy |-> "exponential",
               baseDelay |-> 1000, maxDelay |-> 30000 ]
        [] id = "resource-cleanup" ->
             [ applicableErrors |-> { "RESOURCE_CONFLICT", "RESOURCE_LOCKED", "RESOURCE_EXISTS" },
               maxRetries |-> 3, backoffStrategy |-> "linear",
               baseDelay |-> 2000, maxDelay |-> 10000 ]
        [] id = "permission-escalation" ->
             [ applicableErrors |-> { "PERMISSION_DENIED", "INSUFFICIENT_PRIVILEGES", "AUTH_FAILED" },
               maxRetries |-> 2, backoffStrategy |-> "fixed",
               baseDelay |-> 5000, maxDelay |-> 5000 ]
        [] id = "data-integrity-repair" ->
             [ applicableErrors |-> { "DATA_CORRUPTION", "CONSTRAINT_VIOLATION", "FOREIGN_KEY_ERROR" },
               maxRetries |-> 2, backoffStrategy |-> "fixed",
               baseDelay |-> 3000, maxDelay |-> 3000 ]
        [] id = "partial-rollback" ->
             [ applicableErrors |-> { "CRITICAL_ERROR", "SYSTEM_ERROR", "UNEXPECTED_ERROR" },
               maxRetries |-> 1, backoffStrategy |-> "fixed",
               baseDelay |-> 0, maxDelay |-> 0 ]
        [] OTHER ->
             [ applicableErrors |-> { "OPTIONAL_COMPONENT_ERROR", "FEATURE_NOT_SUPPORTED" },
               maxRetries |-> 0, backoffStrategy |-> "fixed",
               baseDelay |-> 0, maxDelay |-> 0 ] ]

priority ==
  << "connection-retry", "resource-cleanup", "data-integrity-repair",
     "permission-escalation", "graceful-degradation", "partial-rollback" >>

\* The applicable strategies in priority order.
findApplicableStrategies(code) ==
  SelectSeq(priority, LAMBDA id : code \in recoveryStrategies[id].applicableErrors)

Min(a, b) == IF a < b THEN a ELSE b

RECURSIVE Pow2(_)
Pow2(n) == IF n <= 0 THEN 1 ELSE 2 * Pow2(n - 1)

calculateBackoffDelay(strategy, attemptNumber) ==
  CASE strategy.backoffStrategy = "linear" ->
         Min(strategy.baseDelay * attemptNumber, strategy.maxDelay)
    [] strategy.backoffStrategy = "exponential" ->
         Min(strategy.baseDelay * Pow2(attemptNumber - 1), strategy.maxDelay)
    [] OTHER -> strategy.baseDelay

canRollbackFromPhaseMutant(phase) == phase \notin { "cutover" }

canRollbackFromPhase(phase) == phase \notin { "cutover", "validation" }

generateRollbackInstructions(phase) ==
  CASE phase = "preparation" -> << "Delete created target project" >>
    [] phase = "schema_migration" ->
         << "Drop created tables and schemas", "Remove database extensions" >>
    [] phase = "data_migration" -> << "Truncate migrated tables", "Reset sequences" >>
    [] phase = "storage_migration" ->
         << "Delete created storage buckets", "Remove uploaded objects" >>
    [] phase = "edge_functions_migration" -> << "Delete deployed functions" >>
    [] phase = "security_migration" -> << "Remove RLS policies", "Drop custom roles" >>
    [] phase = "realtime_setup" -> << "Remove realtime publications" >>
    [] OTHER -> << >>

\* A recovery decision (RecoveryResult); delay 0 and rollbackToPhase "" stand
\* for an absent field.
Decision(success, action, delay, toPhase, manual) ==
  [ success |-> success, action |-> action, delayBeforeRetry |-> delay,
    rollbackToPhase |-> toPhase, requiresManualIntervention |-> manual ]

NoDecision == Decision(FALSE, "none", 0, "", FALSE)

ManualInterventionMutant == Decision(FALSE, "manual_intervention", 0, "", FALSE)

ManualIntervention == Decision(FALSE, "manual_intervention", 0, "", TRUE)

\* The recovery context of a job; active = FALSE when the map has no entry.
NoContext == [ active |-> FALSE, attemptNumber |-> 0, previousAttempts |-> 0 ]

rollbackToCheckpointMutant(cps, checkpointId) ==
  LET found == { k \in 1..Len(cps) : cps[k].id = checkpointId }
  IN  IF found = {} \/ \E k \in found : ~cps[k].canRollback
      THEN [ ok |-> FALSE, cps |-> cps, executed |-> << >> ]
      ELSE LET rollbackIndex == CHOOSE k \in found : \A m \in found : k <= m
           IN  [ ok |-> TRUE, cps |-> SubSeq(cps, 1, rollbackIndex - 1),
                 executed |-> cps[rollbackIndex].rollbackInstructions ]

\* rollbackToCheckpoint on the checkpoint list cps of one job: the result
\* flag, the list it leaves and the rollback instructions it executed.
rollbackToCheckpoint(cps, checkpointId) ==
  LET found == { k \in 1..Len(cps) : cps[k].id = checkpointId }
  IN  IF found = {} \/ \E k \in found : ~cps[k].canRollback
      THEN [ ok |-> FALSE, cps |-> cps, executed |-> << >> ]
      ELSE LET rollbackIndex == CHOOSE k \in found : \A m \in found : k <= m
           IN  [ ok |-> TRUE, cps |-> SubSeq(cps, 1, rollbackIndex),
                 executed |-> cps[rollbackIndex].rollbackInstructions ]

\* strategy.execute: the decision and the checkpoint list it leaves.
\* repairOk is the outcome of the random draw in executeDataIntegrityRepair.
execute(id, context, cps, repairOk) ==
  CASE id = "connection-retry" ->
         [ result |-> Decision(TRUE, "retry",
                        calculateBackoffDelay(recoveryStrategies["connection-retry"],
                                              context.attemptNumber), "", FALSE),
           cps |-> cps ]
    [] id = "resource-cleanup" ->
         [ result |-> Decision(TRUE, "retry", 2000, "", FALSE), cps |-> cps ]
    [] id = "permission-escalation" ->
         [ result |-> ManualIntervention, cps |-> cps ]
    [] id = "data-integrity-repair" ->
         [ result |-> Decision(repairOk, "retry", 0, "", FALSE), cps |-> cps ]
    [] id = "partial-rollback" ->
         IF Len(cps) = 0
         THEN [ result |-> ManualIntervention, cps |-> cps ]
         ELSE LET lastCheckpoint == cps[Len(cps)]
                  rb == rollbackToCheckpoint(cps, lastCheckpoint.id)
              IN  [ result |->
                      IF rb.ok
                      THEN Decision(TRUE, "retry", 0, lastCheckpoint.phase, FALSE)
                      ELSE ManualIntervention,
                    cps |-> rb.cps ]
    [] OTHER ->
         [ result |-> Decision(TRUE, "skip", 0, "", FALSE), cps |-> cps ]

RECURSIVE tryStrategiesMutant(_, _, _, _, _)
tryStrategiesMutant(strategies, k, context, cps, repairOk) ==
  IF k > Len(strategies)
  THEN [ result |-> ManualIntervention, context |-> NoContext, cps |-> cps ]
  ELSE IF context.attemptNumber > recoveryStrategies[strategies[k]].maxRetries
  THEN tryStrategiesMutant(strategies, k + 1, context, cps, repairOk)
  ELSE LET ex  == execute(strategies[k], context, cps, repairOk)
           ctx == [ context EXCEPT !.previousAttempts = @ + 1 ]
       IN  IF ex.result.success
           THEN [ result |-> ex.result, context |-> NoContext, cps |-> ex.cps ]
           ELSE [ result |-> ex.result, context |-> ctx, cps |-> ex.cps ]

\* The loop of handleError over the applicable strategies, from index k.
RECURSIVE tryStrategies(_, _, _, _, _)
tryStrategies(strategies, k, context, cps, repairOk) ==
  IF k > Len(strategies)
  THEN [ result |-> ManualIntervention, context |-> NoContext, cps |-> cps ]
  ELSE IF context.attemptNumber > recoveryStrategies[strategies[k]].maxRetries
  THEN tryStrategies(strategies, k + 1, context, cps, repairOk)
  ELSE LET ex  == execute(strategies[k], context, cps, repairOk)
           ctx == [ context EXCEPT !.previousAttempts = @ + 1 ]
       IN  IF ex.result.success
           THEN [ result |-> ex.result, context |-> NoContext, cps |-> ex.cps ]
           ELSE IF ex.result.action # "retry"
           THEN [ result |-> ex.result, context |-> ctx, cps |-> ex.cps ]
           ELSE tryStrategies(strategies, k + 1, ctx, ex.cps, repairOk)

\* handleError(job, error, phase): the decision, the recovery context the
\* engine keeps for the job afterwards and the job's checkpoint list.
handleError(context, code, cps, repairOk) ==
  LET applicableStrategies == findApplicableStrategies(code)
  IN  IF Len(applicableStrategies) = 0
      THEN [ result |-> ManualIntervention, context |-> context, cps |-> cps ]
      ELSE LET ctx == IF ~context.active
                      THEN [ active |-> TRUE, attemptNumber |-> 1, previousAttempts |-> 0 ]
                      ELSE [ context EXCEPT !.attemptNumber = @ + 1 ]
           IN  tryStrategies(applicableStrategies, 1, ctx, cps, repairOk)

\* createCheckpoint on the checkpoint list of one job; seq numbers the
\* checkpoints of the job and stands for the generated id.
createCheckpoint(cps, seq, phase, progress) ==
  LET checkpoint == [ id |-> seq, phase |-> phase, progress |-> progress,
                      canRollback |-> canRollbackFromPhase(phase),
                      rollbackInstructions |-> generateRollbackInstructions(phase) ]
      pushed == Append(cps, checkpoint)
  IN  IF Len(pushed) > keepCheckpoints
      THEN SubSeq(pushed, Len(pushed) - keepCheckpoints + 1, Len(pushed))
      ELSE pushed

\* ------------------------------------------------------------------ state
VARIABLES
  jobs,              \* job id -> the MigrationJob object and its pipeline position
  activeJobs,        \* MigrationEngine.activeJobs: the ids in the registry
  checkpoints,       \* ErrorRecoveryEngine.checkpoints: job id -> list
  ckptSeq,           \* job id -> number of checkpoints created so far (id source)
  activeRecoveries,  \* ErrorRecoveryEngine.activeRecoveries: job id -> context
  errors,            \* ErrorMonitoringSystem.errors: job id -> recorded faults
  errorPatterns,     \* ErrorMonitoringSystem.errorPatterns: pattern key -> pattern
  alerts,            \* ErrorMonitoringSystem.alerts, in creation order
  busy,              \* id of the job running a synchronous continuation, or 0
  lastCall           \* the API call that has just returned, with its outcome

\* The state of the monitoring system, and the clock its time windows read.
monitoringSystem == << errors, errorPatterns, alerts, now >>

vars == << jobs, activeJobs, checkpoints, ckptSeq, activeRecoveries,
           monitoringSystem, busy, lastCall >>

initializeProgress ==
  [ overall_percentage |-> 0, current_phase |-> "preparation",
    phases |-> [ p \in PhaseSet |-> "pending" ] ]

\* A slot of jobs that holds no job yet.
NoJob ==
  [ status |-> "none", organization_id |-> "", type |-> "",
    include_storage |-> FALSE, include_edge_functions |-> FALSE,
    target_project_id |-> FALSE, progress |-> initializeProgress,
    error_log |-> << >>, events |-> << >>, event_phases |-> << >>,
    pc |-> "idle", phase |-> "preparation", retryCount |-> 0, runs |-> 0,
    attempts |-> 0, created |-> 0, i |-> 0, n |-> 0, thrown |-> "",
    fault |-> NoFault, handled |-> 0, decision |-> NoDecision, delays |-> << >> ]

NoCall == [ op |-> "none", job |-> 0, result |-> "", options |-> << >> ]

Init ==
  /\ jobs = [ j \in JobIds |-> NoJob ]
  /\ activeJobs = {}
  /\ checkpoints = [ j \in JobIds |-> << >> ]
  /\ ckptSeq = [ j \in JobIds |-> 0 ]
  /\ activeRecoveries = [ j \in JobIds |-> NoContext ]
  /\ errors = [ j \in JobIds |-> << >> ]
  /\ errorPatterns = << >>
  /\ alerts = << >>
  /\ now = 0
  /\ busy = 0
  /\ lastCall = NoCall

\* generateJobId: a fresh id; the model hands the ids out in order.
generateJobId == 1 + Cardinality({ j \in JobIds : jobs[j].status # "none" })

updateProgress(r, pct, phase) ==
  [ r EXCEPT !.progress.overall_percentage = pct, !.progress.current_phase = phase ]

updatePhaseStatus(r, phase, st) == [ r EXCEPT !.progress.phases[phase] = st ]

\* emit(event, job): events holds the names of the events emitted for the
\* job, event_phases the phase each one carries ("" for an event without).
emit(r, event) ==
  [ r EXCEPT !.events = Append(@, event), !.event_phases = Append(@, "") ]

emitPhaseMutant(r, event, phase) == emit(r, event)

\* emit(event, { job, phase, ... }).
emitPhase(r, event, phase) ==
  [ r EXCEPT !.events = Append(@, event), !.event_phases = Append(@, phase) ]

\* The jobs the cap check of startMigration counts.
activeMigrations(organizationId) ==
  { j \in activeJobs : jobs[j].status = "running"
                       /\ jobs[j].organization_id = organizationId }

capReachedMutant(organizationId) ==
  Cardinality(activeMigrations(organizationId)) > maxConcurrentMigrations

capReached(organizationId) ==
  Cardinality(activeMigrations(organizationId)) >= maxConcurrentMigrations

Rejected(options, why) ==
  /\ lastCall' = [ op |-> "start", job |-> 0, result |-> why, options |-> options ]
  /\ UNCHANGED << jobs, activeJobs, checkpoints, ckptSeq, activeRecoveries,
                  monitoringSystem, busy >>

\* startMigration up to the call of executeMigration; pool is the set of ids
\* generateJobId may return.
StartMigration(options, pool) ==
  /\ busy = 0
  /\ IF validateMigrationConfig(options.configuration) # {}
     THEN Rejected(options, "Migration configuration validation failed")
     ELSE IF ~isValidProjectName(options.targetProjectName)
     THEN Rejected(options, "Invalid target project name format")
     ELSE IF ~isValidOrganizationId(options.organizationId)
     THEN Rejected(options, "Invalid organization ID format")
     ELSE IF capReached(options.organizationId)
     THEN Rejected(options, "Maximum concurrent migrations reached for organization")
     ELSE LET jobId == generateJobId
          IN  /\ jobId \in pool
              /\ jobs' = [ jobs EXCEPT ![jobId] =
                   [ NoJob EXCEPT
                       !.status = "pending",
                       !.organization_id = options.organizationId,
                       !.type = options.configuration.clone_type,
                       !.include_storage = options.configuration.include_storage,
                       !.include_edge_functions =
                           options.configuration.include_edge_functions,
                       !.pc = "executeMigration" ] ]
              /\ activeJobs' = activeJobs \cup { jobId }
              /\ busy' = jobId
              /\ lastCall' = [ op |-> "start", job |-> jobId, result |-> "ok",
                               options |-> options ]
              /\ UNCHANGED << checkpoints, ckptSeq, activeRecoveries, monitoringSystem >>

\* The number of migration:cancelled events of a job.
cancelled(j) ==
  Cardinality({ k \in 1..Len(jobs[j].events) : jobs[j].events[k] = "migration:cancelled" })

CancelMigrationMutant(jobId) ==
  /\ busy = 0
  /\ cancelled(jobId) < MaxCancels
  /\ IF jobId \notin activeJobs
     THEN /\ lastCall' = [ op |-> "cancel", job |-> jobId,
                           result |-> "Migration job not found", options |-> << >> ]
          /\ UNCHANGED jobs
     ELSE /\ jobs' = [ jobs EXCEPT ![jobId] =
                 emit([ @ EXCEPT !.status = "cancelled",
                                 !.progress.overall_percentage = 0 ],
                      "migration:cancelled") ]
          /\ lastCall' = [ op |-> "cancel", job |-> jobId, result |-> "ok",
                           options |-> << >> ]
  /\ UNCHANGED << activeJobs, checkpoints, ckptSeq, activeRecoveries, monitoringSystem, busy >>

\* cancelMigration(jobId), called from outside the pipeline.
CancelMigration(jobId) ==
  /\ busy = 0
  /\ cancelled(jobId) < MaxCancels
  /\ IF jobId \notin activeJobs
     THEN /\ lastCall' = [ op |-> "cancel", job |-> jobId,
                           result |-> "Migration job not found", options |-> << >> ]
          /\ UNCHANGED jobs
     ELSE IF jobs[jobId].status \in { "completed", "failed" }
     THEN /\ lastCall' = [ op |-> "cancel", job |-> jobId,
                           result |-> "Cannot cancel completed or failed migration",
                           options |-> << >> ]
          /\ UNCHANGED jobs
     ELSE /\ jobs' = [ jobs EXCEPT ![jobId] =
                 emit([ @ EXCEPT !.status = "cancelled",
                                 !.progress.overall_percentage = 0 ],
                      "migration:cancelled") ]
          /\ lastCall' = [ op |-> "cancel", job |-> jobId, result |-> "ok",
                           options |-> << >> ]
  /\ UNCHANGED << activeJobs, checkpoints, ckptSeq, activeRecoveries, monitoringSystem, busy >>

\* ----------------------------------------------------- pipeline of one job
\* A step of job j that resumes from a suspension (busy = 0) or continues the
\* job's own synchronous continuation (busy = j).
Runs(j, at) == jobs[j].pc = at /\ busy \in { 0, j }

Step(j, r, b) ==
  /\ jobs' = [ jobs EXCEPT ![j] = r ]
  /\ busy' = b
  /\ lastCall' = NoCall

Throw(r, msg) == [ r EXCEPT !.pc = "catch", !.thrown = msg, !.attempts = 0, !.i = 0, !.n = 0 ]

\* executeMigration, first lines: the job starts to run.
ExecuteMigration(j) ==
  /\ Runs(j, "executeMigration")
  /\ Step(j, emit([ jobs[j] EXCEPT !.status = "running", !.phase = "preparation",
                                   !.pc = "executePhase" ],
                  "migration:started"), j)
  /\ UNCHANGED << activeJobs, checkpoints, ckptSeq, activeRecoveries, monitoringSystem >>

\* executePhase, before the retry loop: the checkpoint of the phase.
\* createCheckpoint stores { ...progress }: the scalar fields are copied and
\* the phases field is the reference to the phases array of the job, written
\* here as the id of the job that owns the array.
ExecutePhase(j) ==
  /\ Runs(j, "executePhase")
  /\ checkpoints' = [ checkpoints EXCEPT ![j] =
        createCheckpoint(@, ckptSeq[j] + 1, jobs[j].phase,
                         [ overall_percentage |-> jobs[j].progress.overall_percentage,
                           current_phase |-> jobs[j].progress.current_phase,
                           phases |-> j ]) ]
  /\ ckptSeq' = [ ckptSeq EXCEPT ![j] = @ + 1 ]
  /\ Step(j, [ jobs[j] EXCEPT !.retryCount = 0, !.runs = 0, !.delays = << >>,
                              !.pc = "attempt" ], j)
  /\ UNCHANGED << activeJobs, activeRecoveries, monitoringSystem >>

startPercentageMutant(phase) ==
  CASE phase = "preparation" -> P(5)
    [] phase = "schema_migration" -> P(5)
    [] phase = "data_migration" -> P(35)
    [] phase = "storage_migration" -> P(60)
    [] phase = "configuration_migration" -> P(70)
    [] phase = "edge_functions_migration" -> P(75)
    [] phase = "security_migration" -> P(80)
    [] phase = "realtime_setup" -> P(85)
    [] phase = "validation" -> P(90)
    [] OTHER -> P(95)

startPercentage(phase) ==
  CASE phase = "preparation" -> P(5)
    [] phase = "schema_migration" -> P(15)
    [] phase = "data_migration" -> P(35)
    [] phase = "storage_migration" -> P(60)
    [] phase = "configuration_migration" -> P(70)
    [] phase = "edge_functions_migration" -> P(75)
    [] phase = "security_migration" -> P(80)
    [] phase = "realtime_setup" -> P(85)
    [] phase = "validation" -> P(90)
    [] OTHER -> P(95)

\* The first suspension of each phase executor.
firstAwait(phase) ==
  CASE phase = "preparation" -> "createProject"
    [] phase = "schema_migration" -> "getDatabaseConfig(source)"
    [] phase = "data_migration" -> "migrateData"
    [] phase = "storage_migration" -> "getStorageBuckets"
    [] phase = "configuration_migration" -> "getProjectConfig"
    [] phase = "edge_functions_migration" -> "getEdgeFunctions"
    [] phase = "security_migration" -> "migrateSecurity"
    [] phase = "realtime_setup" -> "setupRealtime"
    [] phase = "validation" -> "performValidationChecks"
    [] OTHER -> "performCutover"

\* Top of the retry loop: the phase is marked running and its executor runs
\* to its first suspension (its first updateProgress included).
RunExecutor(j) ==
  /\ \/ Runs(j, "attempt")
     \/ Runs(j, "delayBeforeRetry")
  /\ LET r  == jobs[j]
         r1 == updatePhaseStatus(r, r.phase, "running")
         r2 == updateProgress(r1, startPercentage(r.phase), r.phase)
     IN  Step(j, [ r2 EXCEPT !.runs = @ + 1, !.i = 0, !.n = 0,
                             !.pc = firstAwait(r.phase) ], 0)
  /\ UNCHANGED << activeJobs, checkpoints, ckptSeq, activeRecoveries, monitoringSystem >>

Executor == UNCHANGED << activeJobs, checkpoints, ckptSeq, activeRecoveries, monitoringSystem >>

\* The executor returned: pc "executed" is the line after `await executor()`.
\* The locals of the executor (attempts, i, n) go out of scope.
Finish(r, pct) ==
  [ updateProgress(r, pct, r.phase) EXCEPT !.pc = "executed", !.attempts = 0, !.i = 0, !.n = 0 ]

\* prepareTargetProject: createProject returns; resp is "ok" or the message
\* class of the API error the thrown Error quotes.
PrepareTargetProject(j, resp) ==
  /\ Runs(j, "createProject")
  /\ IF resp = "ok"
     THEN Step(j, [ jobs[j] EXCEPT !.created = @ + 1, !.target_project_id = TRUE,
                                   !.attempts = 0, !.pc = "getProject" ], 0)
     ELSE Step(j, Throw(jobs[j], resp), j)
  /\ Executor

WaitForProjectReadyMutant(j, healthy) ==
  /\ Runs(j, "getProject")
  /\ IF healthy
     THEN Step(j, Finish(jobs[j], P(10)), j)
     ELSE Step(j, [ jobs[j] EXCEPT !.attempts = (@ + 1) % maxAttempts ], 0)
  /\ Executor

\* waitForProjectReady: one iteration of the polling loop (getProject, then
\* the 10 s wait and attempts++), or the return when the project is healthy.
WaitForProjectReady(j, healthy) ==
  /\ Runs(j, "getProject")
  /\ IF healthy
     THEN Step(j, Finish(jobs[j], P(10)), j)
     ELSE IF jobs[j].attempts + 1 < maxAttempts
     THEN Step(j, [ jobs[j] EXCEPT !.attempts = @ + 1 ], 0)
     ELSE Step(j, Throw(jobs[j], "timeout"), j)
  /\ Executor

\* migrateSchema: getDatabaseConfig of the source returns.
MigrateSchemaSourceConfig(j, ok) ==
  /\ Runs(j, "getDatabaseConfig(source)")
  /\ IF ok
     THEN Step(j, [ jobs[j] EXCEPT !.pc = "getCompleteSchema" ], 0)
     ELSE Step(j, Throw(jobs[j], "other"), j)
  /\ Executor

\* migrateSchema: the inspector returns the schema or throws.
MigrateSchemaInspect(j, resp) ==
  /\ Runs(j, "getCompleteSchema")
  /\ IF resp = "ok"
     THEN Step(j, [ jobs[j] EXCEPT !.pc = "getDatabaseConfig(target)" ], 0)
     ELSE Step(j, Throw(jobs[j], resp), j)
  /\ Executor

\* migrateSchema: getDatabaseConfig of the target returns.
MigrateSchemaTargetConfig(j, ok) ==
  /\ Runs(j, "getDatabaseConfig(target)")
  /\ IF ok
     THEN Step(j, [ jobs[j] EXCEPT !.pc = "applySchemaToTarget" ], 0)
     ELSE Step(j, Throw(jobs[j], "other"), j)
  /\ Executor

\* migrateSchema: applySchemaToTarget returns, progress 30.
MigrateSchemaApply(j) ==
  /\ Runs(j, "applySchemaToTarget")
  /\ Step(j, Finish(jobs[j], P(30)), j)
  /\ Executor

\* migrateData: one iteration of the loop i = 0, 10, .., 100 (the 200 ms wait,
\* then updateProgress(35 + i * 0.25)).
MigrateData(j) ==
  /\ Runs(j, "migrateData")
  /\ LET r   == jobs[j]
         pct == P(35) + r.i * 25
     IN  IF r.i + 10 <= 100
         THEN Step(j, [ updateProgress(r, pct, r.phase) EXCEPT !.i = @ + 10 ], 0)
         ELSE Step(j, Finish(r, pct), j)
  /\ Executor

\* migrateStorage: getStorageBuckets returns n buckets or fails.
MigrateStorageList(j, ok, n) ==
  /\ Runs(j, "getStorageBuckets")
  /\ IF ~ok
     THEN Step(j, Throw(jobs[j], "other"), j)
     ELSE IF n = 0
     THEN Step(j, [ jobs[j] EXCEPT !.n = 0, !.pc = "executed" ], j)
     ELSE Step(j, [ jobs[j] EXCEPT !.n = n, !.i = 0, !.pc = "createStorageBucket" ], 0)
  /\ Executor

\* migrateStorage: createStorageBucket returns (its result is not read),
\* progress 60 + ((i + 1) / n) * 10.
MigrateStorageBucket(j) ==
  /\ Runs(j, "createStorageBucket")
  /\ LET r   == jobs[j]
         pct == P(60) + (P(10) * (r.i + 1)) \div r.n
     IN  IF r.i + 1 < r.n
         THEN Step(j, [ updateProgress(r, pct, r.phase) EXCEPT !.i = @ + 1 ], 0)
         ELSE Step(j, Finish(r, pct), j)
  /\ Executor

\* migrateConfiguration: getProjectConfig returns.
MigrateConfigurationGet(j, ok) ==
  /\ Runs(j, "getProjectConfig")
  /\ IF ok
     THEN Step(j, [ jobs[j] EXCEPT !.pc = "migrateConfiguration" ], 0)
     ELSE Step(j, Throw(jobs[j], "other"), j)
  /\ Executor

\* migrateConfiguration: the simulated work ends, progress 75.
MigrateConfiguration(j) ==
  /\ Runs(j, "migrateConfiguration")
  /\ Step(j, Finish(jobs[j], P(75)), j)
  /\ Executor

\* migrateEdgeFunctions: getEdgeFunctions returns n functions or fails.
MigrateEdgeFunctionsList(j, ok, n) ==
  /\ Runs(j, "getEdgeFunctions")
  /\ IF ~ok
     THEN Step(j, Throw(jobs[j], "other"), j)
     ELSE IF n = 0
     THEN Step(j, [ jobs[j] EXCEPT !.n = 0, !.pc = "executed" ], j)
     ELSE Step(j, [ jobs[j] EXCEPT !.n = n, !.i = 0, !.pc = "getEdgeFunction" ], 0)
  /\ Executor

\* migrateEdgeFunctions: one function (getEdgeFunction and, when it gave the
\* details, deployEdgeFunction), progress 75 + ((i + 1) / n) * 5.
MigrateEdgeFunction(j) ==
  /\ Runs(j, "getEdgeFunction")
  /\ LET r   == jobs[j]
         pct == P(75) + (P(5) * (r.i + 1)) \div r.n
     IN  IF r.i + 1 < r.n
         THEN Step(j, [ updateProgress(r, pct, r.phase) EXCEPT !.i = @ + 1 ], 0)
         ELSE Step(j, Finish(r, pct), j)
  /\ Executor

\* migrateSecurity: the simulated work ends, progress 85.
MigrateSecurity(j) ==
  /\ Runs(j, "migrateSecurity")
  /\ Step(j, Finish(jobs[j], P(85)), j)
  /\ Executor

\* setupRealtime: the simulated work ends, progress 90.
SetupRealtime(j) ==
  /\ Runs(j, "setupRealtime")
  /\ Step(j, Finish(jobs[j], P(90)), j)
  /\ Executor

\* validateMigration: performValidationChecks returns (a random draw).
ValidateMigration(j, success) ==
  /\ Runs(j, "performValidationChecks")
  /\ IF success
     THEN Step(j, Finish(jobs[j], P(95)), j)
     ELSE Step(j, Throw(jobs[j], "other"), j)
  /\ Executor

\* performCutover: the simulated work ends, progress 100.
PerformCutover(j) ==
  /\ Runs(j, "performCutover")
  /\ Step(j, Finish(jobs[j], P(100)), j)
  /\ Executor

RECURSIVE nextPhaseMutant(_, _)
nextPhaseMutant(r, k) ==
  IF k > Len(Phases) THEN ""
  ELSE IF \/ Phases[k] = "storage_migration" /\ ~r.include_storage
          \/ Phases[k] = "edge_functions_migration" /\ ~r.include_edge_functions
  THEN nextPhaseMutant(r, k + 1)
  ELSE Phases[k]

\* The phase executeMigration runs after phase, "" after cutover.
RECURSIVE nextPhase(_, _)
nextPhase(r, k) ==
  IF k > Len(Phases) THEN ""
  ELSE IF \/ Phases[k] = "data_migration" /\ r.type = "schema_only"
          \/ Phases[k] = "storage_migration" /\ ~r.include_storage
          \/ Phases[k] = "edge_functions_migration" /\ ~r.include_edge_functions
  THEN nextPhase(r, k + 1)
  ELSE Phases[k]

phaseIndex(phase) == CHOOSE k \in 1..Len(Phases) : Phases[k] = phase

\* executePhase returned: executeMigration goes on to the next phase.
Return(r) ==
  LET next == nextPhase(r, phaseIndex(r.phase) + 1)
  IN  IF next = ""
      THEN [ r EXCEPT !.pc = "complete" ]
      ELSE [ r EXCEPT !.phase = next, !.pc = "executePhase" ]

\* executePhase after `await executor()`: the phase is completed.
PhaseCompleted(j) ==
  /\ Runs(j, "executed")
  /\ Step(j, Return(updatePhaseStatus(jobs[j], jobs[j].phase, "completed")), j)
  /\ Executor

\* ------------------------------------------------------ monitoring system
criticalErrorThreshold == 3

patternFrequencyThreshold == 5

tenMinutes == 600000

\* The monitoring system as one value: the argument and result of its methods.
Monitoring == [ errors |-> errors, errorPatterns |-> errorPatterns, alerts |-> alerts ]

\* getErrorMetrics(timeWindow).errorsBySeverity[severity] over the errors errs.
errorsBySeverity(errs, timeWindow, severity) ==
  Cardinality(UNION { { << j, k >> : k \in { i \in 1..Len(errs[j]) :
                                               /\ errs[j][i].timestamp > now - timeWindow
                                               /\ errs[j][i].severity = severity } } :
                      j \in JobIds })

\* An alert; jobId 0, patternId << >> and actual 0 stand for absent fields.
Alert(type, severity, jobId, patternId, actual) ==
  [ type |-> type, severity |-> severity, timestamp |-> now, acknowledged |-> FALSE,
    jobId |-> jobId, patternId |-> patternId, actual |-> actual ]

createAlert(alertList, alertData) == Append(alertList, alertData)

updateErrorPatterns(m, error) ==
  LET patternKey == << error.error_code, error.phase >>
      pattern == IF patternKey \in DOMAIN m.errorPatterns
                 THEN m.errorPatterns[patternKey]
                 ELSE [ frequency |-> 0, lastOccurrence |-> error.timestamp,
                        severity |-> error.severity ]
      updated == [ pattern EXCEPT !.frequency = @ + 1,
                                  !.lastOccurrence = error.timestamp ]
  IN  [ m EXCEPT
          !.errorPatterns = [ k \in DOMAIN m.errorPatterns \cup { patternKey } |->
                                IF k = patternKey THEN updated ELSE m.errorPatterns[k] ],
          !.alerts = IF updated.frequency >= patternFrequencyThreshold
                        /\ updated.severity = "high"
                     THEN createAlert(@, Alert("pattern_detected", "high", 0,
                                               patternKey, updated.frequency))
                     ELSE @ ]

checkForAlerts(m, error, job) ==
  LET a1 == IF error.severity = "critical"
            THEN createAlert(m.alerts, Alert("critical_error", "critical", job, << >>, 0))
            ELSE m.alerts
      critical == errorsBySeverity(m.errors, tenMinutes, "critical")
  IN  [ m EXCEPT !.alerts =
          IF critical >= criticalErrorThreshold
          THEN createAlert(a1, Alert("threshold_exceeded", "high", 0, << >>, critical))
          ELSE a1 ]

\* recordError of the monitoring system.
recordError(m, migrationError, job) ==
  checkForAlerts(updateErrorPatterns([ m EXCEPT !.errors[job] = Append(@, migrationError) ],
                                     migrationError),
                 migrationError, job)

keepErrors == 1000

\* The entries of the error map as << job, index >> pairs.
entries(errs) == UNION { { << j, k >> : k \in 1..Len(errs[j]) } : j \in JobIds }

newestFirst(a, b) == b.timestamp - a.timestamp

\* Array.sort with the comparator newestFirst (stable): entry a is placed
\* before entry b.  The map iterates in insertion order, which is the index
\* within the list of a job.
sortsBefore(errs, a, b) ==
  LET c == newestFirst(errs[a[1]][a[2]], errs[b[1]][b[2]])
  IN  c < 0 \/ (c = 0 /\ (a[1] < b[1] \/ (a[1] = b[1] /\ a[2] < b[2])))

\* The errors left when those past the first keepErrors of the sorted
\* entries are deleted.
deleteSlice(errs) ==
  LET all == entries(errs)
      kept(a) == Cardinality({ b \in all : sortsBefore(errs, b, a) }) < keepErrors
  IN  [ j \in JobIds |->
          LET keptIndexes == SelectSeq([ k \in 1..Len(errs[j]) |-> k ],
                                       LAMBDA k : kept(<< j, k >>))
          IN  [ i \in 1..Len(keptIndexes) |-> errs[j][keptIndexes[i]] ] ]

cleanupOldDataMutant(m) ==
  IF Cardinality(entries(m.errors)) > keepErrors
  THEN [ m EXCEPT !.errors = [ j \in JobIds |-> SubSeq(@[j], 1, Min(Len(@[j]), keepErrors)) ] ]
  ELSE m

\* cleanupOldData; the model has no resolved alert, so the purge of resolved
\* alerts past the retention window removes none.
cleanupOldData(m) ==
  IF Cardinality(entries(m.errors)) > keepErrors
  THEN [ m EXCEPT !.errors = deleteSlice(@) ]
  ELSE m

\* The monitoring system becomes m; the clock stands still during a step.
SetMonitoring(m) ==
  /\ errors' = m.errors
  /\ errorPatterns' = m.errorPatterns
  /\ alerts' = m.alerts
  /\ now' = now

\* The strategies whose executor suspends on a timer.
suspends(code) ==
  \E k \in 1..Len(findApplicableStrategies(code)) :
     findApplicableStrategies(code)[k] \in { "resource-cleanup", "data-integrity-repair",
                                             "partial-rollback" }

\* executePhase, catch block up to the call of handleError, or the whole
\* "max retries exceeded" branch.
CatchFault(j) ==
  /\ Runs(j, "catch")
  /\ LET r == jobs[j]
         migrationError == createMigrationError(r.thrown, r.phase)
         r1 == [ r EXCEPT !.error_log = Append(@, migrationError),
                          !.fault = migrationError, !.handled = 0 ]
     IN  IF r.retryCount < maxRetries
         THEN /\ SetMonitoring(recordError(Monitoring, migrationError, j))
              /\ Step(j, [ r1 EXCEPT !.pc = "handleError" ],
                      IF suspends(migrationError.error_code) THEN 0 ELSE j)
         ELSE /\ SetMonitoring(recordError(recordError(Monitoring, migrationError, j),
                                            createMigrationError(r.thrown, r.phase), j))
              /\ Step(j, [ updatePhaseStatus(r1, r.phase, "failed")
                             EXCEPT !.pc = "failed" ], j)
  /\ UNCHANGED << activeJobs, checkpoints, ckptSeq, activeRecoveries >>

\* rollbackToPhase of the engine: the job's progress and checkpoint list after it.
rollbackToPhase(r, cps, targetPhase) ==
  LET found == { k \in 1..Len(cps) : cps[k].phase = targetPhase }
  IN  IF found = {}
      THEN [ job |-> r, cps |-> cps ]
      ELSE LET k == CHOOSE m \in found : \A q \in found : m <= q
           IN  [ job |-> emit(updateProgress(r, cps[k].progress.overall_percentage,
                                             cps[k].progress.current_phase),
                              "migration:rollback_completed"),
                 cps |-> rollbackToCheckpoint(cps, cps[k].id).cps ]

\* executePhase: handleError returns and the retry loop acts on the decision.
HandleError(j, repairOk) ==
  /\ Runs(j, "handleError")
  /\ LET r  == jobs[j]
         h  == handleError(activeRecoveries[j], r.fault.error_code, checkpoints[j], repairOk)
         d  == h.result
         r1 == [ r EXCEPT !.decision = d, !.handled = @ + 1 ]
         rb == rollbackToPhase(r1, h.cps, d.rollbackToPhase)
     IN  /\ activeRecoveries' = [ activeRecoveries EXCEPT ![j] = h.context ]
         /\ IF d.success /\ d.action = "retry"
            THEN /\ checkpoints' = [ checkpoints EXCEPT ![j] = h.cps ]
                 /\ IF d.delayBeforeRetry # 0
                    THEN Step(j, [ r1 EXCEPT !.retryCount = @ + 1,
                                             !.delays = Append(@,
                                                 [ error_code |-> r.fault.error_code,
                                                   delay |-> d.delayBeforeRetry ]),
                                             !.pc = "delayBeforeRetry" ], 0)
                    ELSE Step(j, [ r1 EXCEPT !.retryCount = @ + 1, !.pc = "attempt" ], j)
            ELSE IF d.success /\ d.action = "skip"
            THEN /\ checkpoints' = [ checkpoints EXCEPT ![j] = h.cps ]
                 /\ Step(j, Return(emitPhase(updatePhaseStatus(r1, r.phase, "completed"),
                                             "migration:phase_skipped", r.phase)), j)
            ELSE IF d.success /\ d.action = "rollback" /\ d.rollbackToPhase # ""
            THEN /\ checkpoints' = [ checkpoints EXCEPT ![j] = rb.cps ]
                 /\ Step(j, [ rb.job EXCEPT !.thrown = "other", !.pc = "failed" ], j)
            ELSE IF d.requiresManualIntervention
            THEN /\ checkpoints' = [ checkpoints EXCEPT ![j] = h.cps ]
                 /\ Step(j, [ emitPhase(updatePhaseStatus(r1, r.phase, "failed"),
                                        "migration:manual_intervention_required", r.phase)
                                EXCEPT !.thrown = "other", !.pc = "failed" ], j)
            ELSE /\ checkpoints' = [ checkpoints EXCEPT ![j] = h.cps ]
                 /\ Step(j, [ r1 EXCEPT !.retryCount = @ + 1, !.pc = "attempt" ], j)
  /\ UNCHANGED << activeJobs, ckptSeq, monitoringSystem >>

\* executeMigration, catch block, and the catch handler startMigration
\* attached (handleMigrationError with phase 'preparation').
FailMigration(j) ==
  /\ Runs(j, "failed")
  /\ SetMonitoring(recordError(Monitoring,
                               createMigrationError(jobs[j].thrown, "preparation"), j))
  /\ Step(j, emit([ jobs[j] EXCEPT !.status = "failed", !.pc = "done" ],
                  "migration:failed"), 0)
  /\ UNCHANGED << activeJobs, checkpoints, ckptSeq, activeRecoveries >>

CompleteMigrationMutant(j) ==
  /\ Runs(j, "complete")
  /\ activeJobs' = activeJobs
  /\ Step(j, emit([ jobs[j] EXCEPT !.status = "completed",
                                   !.progress.overall_percentage = P(100),
                                   !.pc = "done" ],
                  "migration:completed"), 0)
  /\ UNCHANGED << checkpoints, ckptSeq, activeRecoveries, monitoringSystem >>

\* executeMigration after the last phase.
CompleteMigration(j) ==
  /\ Runs(j, "complete")
  /\ activeJobs' = activeJobs \ { j }
  /\ Step(j, emit([ jobs[j] EXCEPT !.status = "completed",
                                   !.progress.overall_percentage = P(100),
                                   !.pc = "done" ],
                  "migration:completed"), 0)
  /\ UNCHANGED << checkpoints, ckptSeq, activeRecoveries, monitoringSystem >>

\* getMigrationStatus(jobId): the job object, or NoJob for null.
getMigrationStatus(jobId) == IF jobId \in activeJobs THEN jobs[jobId] ELSE NoJob

\* ------------------------------------------------------------ environment
Configuration(type, threads, batch, storage, edge) ==
  [ clone_type |-> type, target_region |-> "us-east-1",
    parallel_threads |-> threads, batch_size |-> batch,
    data_filters |-> "absent", exclude_tables |-> "absent",
    include_storage |-> storage, include_edge_functions |-> edge ]

Options(configuration, organizationId) ==
  [ configuration |-> configuration, targetProjectName |-> "clone-1",
    organizationId |-> organizationId ]

\* The submissions of the single-job specification: every pipeline shape,
\* and one configuration the validator rejects.
SoloOptions ==
  { Options(Configuration(t, 4, 1000, st, ed), "org-a") :
      t \in { "full_clone", "schema_only" }, st \in BOOLEAN, ed \in BOOLEAN }
  \cup { Options(Configuration("data_subset", 4, 1000, TRUE, TRUE), "org-a"),
         Options(Configuration("full_clone", 25, 1000, FALSE, FALSE), "org-a") }

\* The message classes the model lets the management API quote in a failed
\* createProject, and the inspector throw.
ApiErrors == { "timeout", "permission", "other" }

InspectorErrors == { "conflict", "other" }

SoloJobs == { 1 }

\* One step of the pipeline of job j.
Pipeline(j) ==
  \/ ExecuteMigration(j)
  \/ ExecutePhase(j)
  \/ RunExecutor(j)
  \/ \E resp \in { "ok" } \cup ApiErrors : PrepareTargetProject(j, resp)
  \/ \E healthy \in BOOLEAN : WaitForProjectReady(j, healthy)
  \/ \E ok \in BOOLEAN : MigrateSchemaSourceConfig(j, ok)
  \/ \E resp \in { "ok" } \cup InspectorErrors : MigrateSchemaInspect(j, resp)
  \/ \E ok \in BOOLEAN : MigrateSchemaTargetConfig(j, ok)
  \/ MigrateSchemaApply(j)
  \/ MigrateData(j)
  \/ \E ok \in BOOLEAN, n \in 0..MaxBuckets : MigrateStorageList(j, ok, n)
  \/ MigrateStorageBucket(j)
  \/ \E ok \in BOOLEAN : MigrateConfigurationGet(j, ok)
  \/ MigrateConfiguration(j)
  \/ \E ok \in BOOLEAN, n \in 0..MaxFunctions : MigrateEdgeFunctionsList(j, ok, n)
  \/ MigrateEdgeFunction(j)
  \/ MigrateSecurity(j)
  \/ SetupRealtime(j)
  \/ \E success \in BOOLEAN : ValidateMigration(j, success)
  \/ PerformCutover(j)
  \/ PhaseCompleted(j)
  \/ CatchFault(j)
  \/ \E repairOk \in BOOLEAN : HandleError(j, repairOk)
  \/ FailMigration(j)
  \/ CompleteMigration(j)

Next ==
  \/ \E options \in SoloOptions : StartMigration(options, SoloJobs)
  \/ \E j \in SoloJobs : CancelMigration(j)
  \/ \E j \in SoloJobs : Pipeline(j)

Spec == Init /\ [][Next]_vars

\* The single job as a full clone with storage and edge functions, the
\* longest pipeline.  Every collaborator call and every wait of the pipeline
\* returns: a pipeline that can take a step takes one.
LiveOptions == { Options(Configuration("full_clone", 4, 1000, TRUE, TRUE), "org-a") }

NextLive ==
  \/ \E options \in LiveOptions : StartMigration(options, SoloJobs)
  \/ \E j \in SoloJobs : CancelMigration(j)
  \/ \E j \in SoloJobs : Pipeline(j)

SpecLive == Init /\ [][NextLive]_vars /\ \A j \in SoloJobs : WF_vars(Pipeline(j))

\* ------------------------------------------- submissions against the cap
\* This specification submits up to maxConcurrentMigrations + 1 jobs of two
\* organizations.  The collaborators do not answer in it: every accepted job
\* stays suspended in createProject, the state in which the cap is exercised,
\* and leaves the status running only by cancelMigration (at most one accepted
\* cancel per job).
CapOptions ==
  { Options(Configuration("schema_only", 4, 1000, FALSE, FALSE), o) :
      o \in { "org-a", "org-b", "not-a-uuid" } }
  \cup { Options(Configuration("schema_only", t, 1000, FALSE, FALSE), "org-a") :
           t \in { 0, 1, 20, 21, 25 } }
  \cup { Options(Configuration("schema_only", 4, b, FALSE, FALSE), "org-a") :
           b \in { 0, 99, 100, 10000, 10001 } }
  \cup { Options(Configuration("everything", 4, 1000, FALSE, FALSE), "org-a"),
         [ Options(Configuration("schema_only", 4, 1000, FALSE, FALSE), "org-a")
             EXCEPT !.configuration.target_region = "" ],
         [ Options(Configuration("schema_only", 4, 1000, FALSE, FALSE), "org-a")
             EXCEPT !.configuration.data_filters = "invalid" ],
         [ Options(Configuration("schema_only", 4, 1000, FALSE, FALSE), "org-a")
             EXCEPT !.configuration.exclude_tables = "invalid" ],
         [ Options(Configuration("schema_only", 4, 1000, FALSE, FALSE), "org-a")
             EXCEPT !.targetProjectName = "bad name!" ] }

NextCap ==
  \/ \E options \in CapOptions : StartMigration(options, JobIds)
  \/ \E j \in JobIds : CancelMigration(j) /\ cancelled(j) = 0
  \/ \E j \in JobIds : ExecuteMigration(j)
  \/ \E j \in JobIds : ExecutePhase(j)
  \/ \E j \in JobIds : RunExecutor(j)

SpecCap == Init /\ [][NextCap]_vars

\* -------------------------------------------------- the recovery engine
\* These specifications call the recovery engine the way the pipeline of one
\* job does: one call after the other (every call is awaited), checkpoints
\* for the phases in pipeline order.
MaxCheckpoints == 11

\* createCheckpoint(jobId, phase, progress, state).
CreateCheckpoint(j) ==
  /\ busy = 0
  /\ ckptSeq[j] < MaxCheckpoints
  /\ checkpoints' = [ checkpoints EXCEPT ![j] =
        createCheckpoint(@, ckptSeq[j] + 1, Phases[(ckptSeq[j] % Len(Phases)) + 1],
                         [ overall_percentage |-> 0, current_phase |-> "preparation",
                           phases |-> j ]) ]
  /\ ckptSeq' = [ ckptSeq EXCEPT ![j] = @ + 1 ]
  /\ lastCall' = [ op |-> "createCheckpoint", job |-> j, result |-> "ok",
                   options |-> ckptSeq[j] + 1 ]
  /\ UNCHANGED << jobs, activeJobs, activeRecoveries, monitoringSystem, busy >>

\* rollbackToCheckpoint(jobId, checkpointId).
RollbackToCheckpoint(j, checkpointId) ==
  /\ busy = 0
  /\ LET rb == rollbackToCheckpoint(checkpoints[j], checkpointId)
     IN  /\ checkpoints' = [ checkpoints EXCEPT ![j] = rb.cps ]
         /\ lastCall' = [ op |-> "rollbackToCheckpoint", job |-> j,
                          result |-> IF rb.ok THEN "true" ELSE "false",
                          options |-> [ checkpointId |-> checkpointId,
                                        executed |-> rb.executed ] ]
  /\ UNCHANGED << jobs, activeJobs, ckptSeq, activeRecoveries, monitoringSystem, busy >>

\* handleError(job, error, phase) with a fault of code CRITICAL_ERROR, the
\* code of the partial-rollback strategy.
PartialRollback(j) ==
  /\ busy = 0
  /\ LET h == handleError(activeRecoveries[j], "CRITICAL_ERROR", checkpoints[j], TRUE)
     IN  /\ activeRecoveries' = [ activeRecoveries EXCEPT ![j] = h.context ]
         /\ checkpoints' = [ checkpoints EXCEPT ![j] = h.cps ]
         /\ lastCall' = [ op |-> "handleError", job |-> j, result |-> h.result.action,
                          options |-> [ code |-> "CRITICAL_ERROR", decision |-> h.result ] ]
  /\ UNCHANGED << jobs, activeJobs, ckptSeq, monitoringSystem, busy >>

NextStore ==
  \/ CreateCheckpoint(1)
  \/ \E checkpointId \in 1..MaxCheckpoints : RollbackToCheckpoint(1, checkpointId)
  \/ PartialRollback(1)

SpecStore == Init /\ [][NextStore]_vars

\* The error codes handleError is called with: one per strategy, the second
\* code of graceful-degradation and a code no strategy lists.
RecoveryCodes ==
  { "CONNECTION_TIMEOUT", "RESOURCE_CONFLICT", "PERMISSION_DENIED", "DATA_CORRUPTION",
    "CRITICAL_ERROR", "OPTIONAL_COMPONENT_ERROR", "FEATURE_NOT_SUPPORTED",
    "UNKNOWN_ERROR" }

\* handleError(job, error, phase), called on the engine.
HandleErrorCall(j, code, repairOk) ==
  /\ busy = 0
  /\ LET h == handleError(activeRecoveries[j], code, checkpoints[j], repairOk)
     IN  /\ activeRecoveries' = [ activeRecoveries EXCEPT ![j] = h.context ]
         /\ checkpoints' = [ checkpoints EXCEPT ![j] = h.cps ]
         /\ lastCall' = [ op |-> "handleError", job |-> j, result |-> h.result.action,
                          options |-> [ code |-> code, decision |-> h.result ] ]
  /\ UNCHANGED << jobs, activeJobs, ckptSeq, monitoringSystem, busy >>

NextRecovery ==
  \/ \E j \in { 1, 2 } : CreateCheckpoint(j)
  \/ \E j \in { 1, 2 }, code \in RecoveryCodes, repairOk \in BOOLEAN :
        HandleErrorCall(j, code, repairOk)

SpecRecovery == Init /\ [][NextRecovery]_vars

\* ------------------------------------------------ the monitoring system
\* This specification calls recordError of the monitoring system (the engine
\* hands it out through getMonitoringSystem) with faults of two kinds and
\* lets the clock advance between the calls.  cleanupOldData acts only on
\* resolved alerts and on more than 1000 errors, which do not arise here.
MaxEvents == 7

tick == tenMinutes \div 2

recorded == Cardinality(UNION { { << j, k >> : k \in 1..Len(errors[j]) } : j \in JobIds })

MonitorMessages == { "CRITICAL", "timeout" }

\* recordError(error, job), called with a fault made now.
RecordError(msg, job) ==
  /\ busy = 0
  /\ recorded + (now \div tick) < MaxEvents
  /\ SetMonitoring(recordError(Monitoring, createMigrationError(msg, "preparation"), job))
  /\ lastCall' = [ op |-> "recordError", job |-> job, result |-> msg, options |-> << >> ]
  /\ UNCHANGED << jobs, activeJobs, checkpoints, ckptSeq, activeRecoveries, busy >>

\* Five minutes pass.
Tick ==
  /\ busy = 0
  /\ recorded + (now \div tick) < MaxEvents
  /\ now' = now + tick
  /\ lastCall' = NoCall
  /\ UNCHANGED << jobs, activeJobs, checkpoints, ckptSeq, activeRecoveries,
                  errors, errorPatterns, alerts, busy >>

NextMonitor ==
  \/ \E msg \in MonitorMessages : RecordError(msg, 1)
  \/ Tick

SpecMonitor == Init /\ [][NextMonitor]_vars

\* ---------------------------------------------------------------- fault log
\* This specification fills the fault log: recordError is called with
\* faults made one millisecond apart, and the interval callback of
\* startMonitoring runs between any two of them.
MaxLog == 1003

\* recordError(error, job) with a fault made now; a millisecond passes.
RecordFault(job) ==
  /\ busy = 0
  /\ now < MaxLog
  /\ LET m == recordError(Monitoring, createMigrationError("PERMISSION", "preparation"), job)
     IN  /\ errors' = m.errors
         /\ errorPatterns' = m.errorPatterns
         /\ alerts' = m.alerts
  /\ now' = now + 1
  /\ lastCall' = [ op |-> "recordError", job |-> job, result |-> "PERMISSION",
                   options |-> << >> ]
  /\ UNCHANGED << jobs, activeJobs, checkpoints, ckptSeq, activeRecoveries, busy >>

\* The interval callback of startMonitoring: runHealthChecks suspends at its
\* first probe (the probes write health checks and alerts only), then
\* cleanupOldData runs.
CleanupOldData ==
  /\ busy = 0
  /\ SetMonitoring(cleanupOldData(Monitoring))
  /\ lastCall' = [ op |-> "cleanupOldData", job |-> 0, result |-> "", options |-> << >> ]
  /\ UNCHANGED << jobs, activeJobs, checkpoints, ckptSeq, activeRecoveries, busy >>

NextLog ==
  \/ RecordFault(1)
  \/ CleanupOldData

SpecLog == Init /\ [][NextLog]_vars

\* ================================================================= claims
Pct(j) == jobs[j].progress.overall_percentage

\* The job exists and its record is the one in jobs[j].
Exists(j) == jobs[j].status # "none"

StatusStep(a, b) ==
  \/ a = b
  \/ a = "none" /\ b = "pending"
  \/ a = "pending" /\ b = "running"
  \/ a = "running" /\ b \in { "completed", "failed", "cancelled" }

\* C1: the status of every job changes only along
\* pending -> running -> {completed | failed | cancelled}, and a status of
\* completed, failed or cancelled never changes again.
C1_StatusTransitions ==
  [][ \A j \in JobIds : StatusStep(jobs[j].status, jobs'[j].status) ]_vars

\* C2: once a job is cancelled no later phase of it is started (no new
\* checkpoint, no run of an executor of a later phase) and its status stays
\* cancelled.
C2_CancelStopsAtPhaseBoundary ==
  [][ \A j \in JobIds :
        jobs[j].status = "cancelled"
          => /\ jobs'[j].status = "cancelled"
             /\ ckptSeq'[j] = ckptSeq[j]
             /\ jobs'[j].phase = jobs[j].phase ]_vars

\* C3: while a job is running its overall percentage never decreases from
\* one state to the next.
C3_ProgressNonDecreasing ==
  [][ \A j \in JobIds :
        jobs[j].status = "running" /\ jobs'[j].status = "running"
          => Pct(j)' >= Pct(j) ]_vars

\* A running job past a retried phase and a phase skipped by configuration.
C3_Witness ==
  /\ jobs[1].status = "running"
  /\ jobs[1].type = "schema_only"
  /\ jobs[1].phase = "configuration_migration"
  /\ Len(jobs[1].error_log) >= 2
  /\ Pct(1) = P(75)

\* C4: in every state of a job the overall percentage is 100 exactly when the
\* status is completed.
C4_HundredIffCompleted ==
  \A j \in JobIds : Exists(j) => (Pct(j) = P(100) <=> jobs[j].status = "completed")

running(organizationId) ==
  { j \in JobIds : jobs[j].status = "running" /\ jobs[j].organization_id = organizationId }

CapMessage == "Maximum concurrent migrations reached for organization"

\* C5: no organization ever has more than 5 running jobs; a submission for
\* an organization with 5 running jobs is rejected and changes no job, and a
\* submission is rejected for the cap only in that situation.
C5_ConcurrencyCap ==
  /\ [](\A o \in { "org-a", "org-b" } : Cardinality(running(o)) <= 5)
  /\ [][ lastCall'.op = "start" /\ lastCall' # lastCall
           => /\ Cardinality(running(lastCall'.options.organizationId)) >= 5
                 => /\ lastCall'.result # "ok"
                    /\ jobs' = jobs /\ activeJobs' = activeJobs
                    /\ checkpoints' = checkpoints
              /\ lastCall'.result = CapMessage
                 => Cardinality(running(lastCall'.options.organizationId)) = 5 ]_vars

\* A submission was rejected for the cap while five jobs run.
C5_Witness ==
  /\ lastCall.op = "start" /\ lastCall.result = CapMessage
  /\ Cardinality(running("org-a")) = 5
  /\ Cardinality(activeJobs) = 5

\* The bounds the claim names for a configuration.
InBounds(c) ==
  /\ c.parallel_threads \in 1..20
  /\ c.batch_size \in 100..10000

\* C6: a submission whose configuration fails validation (threads outside
\* 1..20, batch size outside 100..10000) is rejected and leaves the registry,
\* the jobs and the checkpoints as they were.
C6_InvalidConfigurationRejected ==
  [][ /\ lastCall'.op = "start" /\ lastCall' # lastCall
      /\ ~InBounds(lastCall'.options.configuration)
      => /\ lastCall'.result = "Migration configuration validation failed"
         /\ jobs' = jobs /\ activeJobs' = activeJobs
         /\ checkpoints' = checkpoints /\ ckptSeq' = ckptSeq ]_vars

\* A submission with parallel_threads = 25 was rejected while a job runs.
C6_Witness ==
  /\ lastCall.op = "start"
  /\ lastCall.options.configuration.parallel_threads = 25
  /\ lastCall.result = "Migration configuration validation failed"
  /\ activeJobs # {}

RECURSIVE Exp2(_)
Exp2(n) == IF n <= 0 THEN 1 ELSE 2 * Exp2(n - 1)

\* C7: the delays returned for the successive CONNECTION_TIMEOUT retries of
\* one phase grow: the delay before retry n is 1000 * 2^(n-1) ms.
C7_BackoffGrows ==
  \A j \in JobIds :
    LET d == jobs[j].delays
    IN  (\A k \in 1..Len(d) : d[k].error_code = "CONNECTION_TIMEOUT")
          => \A k \in 1..Len(d) :
                /\ d[k].delay = 1000 * Exp2(k - 1)
                /\ k > 1 => d[k].delay > d[k - 1].delay

\* The phase of job j ended by the retry ceiling after CONNECTION_TIMEOUT
\* faults on each of its runs.
TimedOutEveryRun(j) ==
  LET r == jobs[j]
      n == Len(r.error_log)
  IN  /\ r.pc \in { "failed", "done" }
      /\ r.progress.phases[r.phase] = "failed"
      /\ n >= r.runs
      /\ \A k \in (n - r.runs + 1)..n :
            /\ r.error_log[k].error_code = "CONNECTION_TIMEOUT"
            /\ r.error_log[k].phase = r.phase

\* C8: an executor is run at most 4 times per phase; when it timed out on
\* every run the job ends failed, no later phase was started, and the last
\* fault is the last entry of error_log.
C8_RetryCeiling ==
  \A j \in JobIds :
    /\ jobs[j].runs <= 4
    /\ TimedOutEveryRun(j)
         => /\ jobs[j].runs = 4
            /\ jobs[j].pc = "done" => jobs[j].status = "failed"
            /\ \A k \in 1..Len(Phases) :
                  k > phaseIndex(jobs[j].phase)
                    => jobs[j].progress.phases[Phases[k]] = "pending"
            /\ Len(checkpoints[j]) <= phaseIndex(jobs[j].phase)
            /\ jobs[j].error_log[Len(jobs[j].error_log)]
                 = createMigrationError(jobs[j].thrown, jobs[j].phase)

\* The preparation phase timed out four times and the job failed.
C8_Witness ==
  /\ TimedOutEveryRun(1)
  /\ jobs[1].pc = "done"
  /\ jobs[1].status = "failed"
  /\ Len(jobs[1].error_log) = 4

\* C9: a PERMISSION_DENIED fault gets the unsuccessful decision
\* manual_intervention from handleError, is handled at most once with at
\* most one recovery attempt, the phase is not run again and the job fails.
C9_PermissionDenied ==
  \A j \in JobIds :
    jobs[j].fault.error_code = "PERMISSION_DENIED"
      => /\ jobs[j].pc \in { "handleError", "failed", "done" }
         /\ jobs[j].handled <= 1
         /\ activeRecoveries[j].previousAttempts <= 1
         /\ jobs[j].handled = 1
              => /\ ~jobs[j].decision.success
                 /\ jobs[j].decision.action = "manual_intervention"
                 /\ jobs[j].progress.phases[jobs[j].phase] = "failed"
         /\ jobs[j].pc = "done" => jobs[j].status = "failed"

\* A job failed on a PERMISSION_DENIED fault that handleError saw once.
C9_Witness ==
  /\ jobs[1].fault.error_code = "PERMISSION_DENIED"
  /\ jobs[1].handled = 1
  /\ jobs[1].pc = "done"
  /\ jobs[1].status = "failed"

\* C10: cancelMigration on a completed or failed job returns an error and
\* leaves the job (status, progress, emitted events) as it was.
C10_CancelRejectedWhenOver ==
  [][ \A j \in JobIds :
        /\ lastCall'.op = "cancel" /\ lastCall'.job = j
        /\ jobs[j].status \in { "completed", "failed" }
        => /\ lastCall'.result # "ok"
           /\ jobs'[j] = jobs[j] ]_vars

\* A cancel of a failed job was rejected.
C10_Witness ==
  /\ lastCall.op = "cancel"
  /\ lastCall.result = "Cannot cancel completed or failed migration"
  /\ jobs[lastCall.job].status = "failed"

\* C11: cancelMigration on a job whose status is already cancelled returns an
\* error, leaves the job (status, progress) as it was and emits no further
\* migration:cancelled event.
C11_CancelRejectedWhenCancelled ==
  [][ \A j \in JobIds :
        /\ lastCall'.op = "cancel" /\ lastCall'.job = j
        /\ jobs[j].status = "cancelled"
        => /\ lastCall'.result # "ok"
           /\ jobs'[j].progress = jobs[j].progress
           /\ jobs'[j].events = jobs[j].events ]_vars

\* The phases executeMigration runs for job record r.
requiredPhases(r) ==
  { ph \in PhaseSet :
      /\ ph = "data_migration" => r.type # "schema_only"
      /\ ph = "storage_migration" => r.include_storage
      /\ ph = "edge_functions_migration" => r.include_edge_functions }

allCompleted(r) == \A ph \in requiredPhases(r) : r.progress.phases[ph] = "completed"

\* C16: a job whose required phases all completed ends completed at 100% and
\* is no longer in the registry (getMigrationStatus gives null); a job that
\* ends on a fault is failed and still observable through getMigrationStatus.
C16_Completion ==
  \A j \in JobIds :
    jobs[j].pc = "done"
      => IF allCompleted(jobs[j])
         THEN /\ jobs[j].status = "completed"
              /\ Pct(j) = P(100)
              /\ j \notin activeJobs
              /\ getMigrationStatus(j) = NoJob
         ELSE /\ jobs[j].status = "failed"
              /\ j \in activeJobs
              /\ getMigrationStatus(j) = jobs[j]
              /\ getMigrationStatus(j).status = "failed"

\* A full clone with storage and edge functions completed.
C16_Witness ==
  /\ jobs[1].pc = "done"
  /\ jobs[1].status = "completed"
  /\ requiredPhases(jobs[1]) = PhaseSet
  /\ allCompleted(jobs[1])
  /\ 1 \notin activeJobs

\* C18: a job is failed only after handleError was called for its latest
\* fault and returned manual_intervention.
C18_FaultsOfferedToRecovery ==
  \A j \in JobIds :
    jobs[j].status = "failed"
      => /\ jobs[j].handled = 1
         /\ jobs[j].decision.action = "manual_intervention"

\* C20: after handleError returned a successful decision or
\* manual_intervention the engine holds no recovery context for the job; a
\* failed job has no recovery context.
C20_NoContextLeft ==
  \A j \in JobIds :
    /\ jobs[j].handled = 1
       /\ (jobs[j].decision.success \/ jobs[j].decision.action = "manual_intervention")
       => ~activeRecoveries[j].active
    /\ jobs[j].status = "failed" => ~activeRecoveries[j].active

\* The alerts of one type.
alertsOfType(type) == { k \in 1..Len(alerts) : alerts[k].type = type }

criticalInWindow == errorsBySeverity(errors, tenMinutes, "critical")

\* C14: the step that brings the critical faults of the last 10 minutes to 3
\* creates exactly one threshold_exceeded alert, and a fault recorded while
\* the count stays at or above 3 creates none.
C14_OneThresholdAlertPerCrossing ==
  [][ /\ (criticalInWindow < criticalErrorThreshold
           /\ criticalInWindow' >= criticalErrorThreshold)
         => Cardinality(alertsOfType("threshold_exceeded")')
              = Cardinality(alertsOfType("threshold_exceeded")) + 1
      /\ (criticalInWindow >= criticalErrorThreshold
           /\ criticalInWindow' >= criticalErrorThreshold)
         => alertsOfType("threshold_exceeded")' = alertsOfType("threshold_exceeded") ]_vars

patternAlerts(key) ==
  { k \in alertsOfType("pattern_detected") : alerts[k].patternId = key }

frequency(key) ==
  IF key \in DOMAIN errorPatterns THEN errorPatterns[key].frequency ELSE 0

\* C15: for a pattern of high severity the occurrence that brings its
\* frequency to 5 creates exactly one pattern_detected alert, and the 6th and
\* later occurrences create none.
C15_OnePatternAlertPerCrossing ==
  [][ \A key \in DOMAIN errorPatterns' :
        errorPatterns'[key].severity = "high"
          => /\ (frequency(key) = 4 /\ frequency(key)' = 5)
                => Cardinality(patternAlerts(key)') = Cardinality(patternAlerts(key)) + 1
             /\ frequency(key) >= 5 => patternAlerts(key)' = patternAlerts(key) ]_vars

\* C12: every job has at most 10 stored checkpoints, in creation order; a
\* createCheckpoint on a full list removes the oldest checkpoint and keeps
\* the 10 newest, and on a shorter list removes nothing.
C12_CheckpointRetention ==
  /\ [](\A j \in JobIds :
          /\ Len(checkpoints[j]) <= 10
          /\ \A k \in 1..(Len(checkpoints[j]) - 1) :
                checkpoints[j][k].id < checkpoints[j][k + 1].id)
  /\ [][ \A j \in JobIds :
          lastCall'.op = "createCheckpoint" /\ lastCall'.job = j
            => LET old == checkpoints[j]
                   new == checkpoints'[j]
               IN  /\ new[Len(new)].id = lastCall'.options
                   /\ Len(old) = 10
                        => /\ Len(new) = 10
                           /\ \A k \in 1..9 : new[k] = old[k + 1]
                   /\ Len(old) < 10
                        => /\ Len(new) = Len(old) + 1
                           /\ \A k \in 1..Len(old) : new[k] = old[k] ]_vars

\* The 11th checkpoint was created on a full list: checkpoints 2..11 remain.
C12_Witness ==
  /\ lastCall.op = "createCheckpoint"
  /\ Len(checkpoints[1]) = 10
  /\ checkpoints[1][1].id = 2
  /\ checkpoints[1][10].id = 11

\* C13: a successful rollbackToCheckpoint(job, c) leaves the checkpoints of
\* the job up to and including c, each as it was, and nothing after c; a
\* second call with the same c succeeds and changes nothing.
C13_RollbackKeepsPrefix ==
  [][ \A j \in JobIds :
        /\ lastCall'.op = "rollbackToCheckpoint" /\ lastCall'.job = j
        /\ lastCall'.result = "true"
        => LET old == checkpoints[j]
               new == checkpoints'[j]
               c   == lastCall'.options.checkpointId
           IN  /\ Len(new) >= 1
               /\ new[Len(new)].id = c
               /\ Len(new) <= Len(old)
               /\ \A k \in 1..Len(new) : new[k] = old[k]
               /\ \A k \in 1..Len(old) : old[k].id <= c => k <= Len(new)
               /\ rollbackToCheckpoint(new, c).ok
               /\ rollbackToCheckpoint(new, c).cps = new ]_vars

\* A rollback to a checkpoint that is not the newest one succeeded, after
\* the oldest checkpoint had been evicted.
C13_Witness ==
  /\ lastCall.op = "rollbackToCheckpoint"
  /\ lastCall.result = "true"
  /\ ckptSeq[1] = 11
  /\ lastCall.options.checkpointId = 5
  /\ Len(checkpoints[1]) = 4
  /\ checkpoints[1][1].id = 2

\* C17: handleError for the codes of graceful-degradation returns a
\* successful decision with action skip.
C17_GracefulDegradationSkips ==
  [][ /\ lastCall'.op = "handleError"
      /\ lastCall'.options.code \in { "OPTIONAL_COMPONENT_ERROR", "FEATURE_NOT_SUPPORTED" }
      => /\ lastCall'.options.decision.success
         /\ lastCall'.options.decision.action = "skip" ]_vars

\* C27: every fault of a job is recorded in the monitoring system exactly
\* once and with the phase it occurred in: the records of the job are as
\* many as the entries of its error_log and carry the same phases.
C27_RecordedExactlyOnce ==
  \A j \in JobIds :
    /\ Len(errors[j]) = Len(jobs[j].error_log)
    /\ \A k \in 1..Len(errors[j]) : errors[j][k].phase = jobs[j].error_log[k].phase

terminalEvents(j) ==
  { k \in 1..Len(jobs[j].events) :
      jobs[j].events[k] \in { "migration:completed", "migration:failed",
                              "migration:cancelled" } }

\* C28: a job emits at most one of the events migration:completed,
\* migration:failed and migration:cancelled.
C28_OneTerminalEvent ==
  \A j \in JobIds : Cardinality(terminalEvents(j)) <= 1

\* C29: the target project of a job is created at most once.
C29_ProjectCreatedOnce ==
  \A j \in JobIds : jobs[j].created <= 1

\* Phase ph of job j starts in this step.
Starts(j, ph) ==
  /\ jobs[j].progress.phases[ph] = "pending"
  /\ jobs'[j].progress.phases[ph] # "pending"

\* C23: the phases of a job start in pipeline order, each only after every
\* earlier phase the configuration asks for ended completed and while every
\* later phase is pending; a phase the configuration leaves out
\* (data_migration for schema_only, storage_migration without
\* include_storage, edge_functions_migration without include_edge_functions)
\* never starts.
C23_PhaseOrder ==
  [][ \A j \in JobIds : \A ph \in PhaseSet :
        Starts(j, ph)
          => /\ jobs[j].status # "none"
             /\ jobs'[j].progress.phases[ph] = "running"
             /\ ph \in requiredPhases(jobs[j])
             /\ \A q \in PhaseSet :
                   /\ phaseIndex(q) < phaseIndex(ph)
                        => jobs[j].progress.phases[q]
                             = IF q \in requiredPhases(jobs[j]) THEN "completed"
                                                                ELSE "pending"
                   /\ phaseIndex(q) > phaseIndex(ph)
                        => jobs'[j].progress.phases[q] = "pending" ]_vars

\* A schema_only job without storage runs its edge functions phase: the two
\* phases left out are pending, the earlier phases completed.
C23_Witness ==
  /\ jobs[1].type = "schema_only"
  /\ ~jobs[1].include_storage
  /\ jobs[1].progress.phases["edge_functions_migration"] = "running"
  /\ jobs[1].progress.phases["data_migration"] = "pending"
  /\ jobs[1].progress.phases["storage_migration"] = "pending"
  /\ jobs[1].progress.phases["configuration_migration"] = "completed"

eventsNamed(j, event) == { k \in 1..Len(jobs[j].events) : jobs[j].events[k] = event }

\* C26: a job that failed on the decision manual_intervention emitted
\* migration:manual_intervention_required for the failing phase before its
\* migration:failed; a job that failed at the retry ceiling emitted no
\* migration:manual_intervention_required.
C26_ManualInterventionEvent ==
  \A j \in JobIds :
    jobs[j].pc = "done" /\ jobs[j].status = "failed"
      => /\ eventsNamed(j, "migration:failed") # {}
         /\ IF jobs[j].handled = 1
            THEN /\ jobs[j].decision.action = "manual_intervention"
                 /\ \E m \in eventsNamed(j, "migration:manual_intervention_required") :
                       /\ jobs[j].event_phases[m] = jobs[j].phase
                       /\ \A f \in eventsNamed(j, "migration:failed") : m < f
            ELSE /\ jobs[j].runs = maxRetries + 1
                 /\ eventsNamed(j, "migration:manual_intervention_required") = {}

\* A job failed in the schema phase on a decision of manual intervention.
C26_Witness ==
  /\ jobs[1].pc = "done" /\ jobs[1].status = "failed"
  /\ jobs[1].phase = "schema_migration"
  /\ jobs[1].handled = 1
  /\ eventsNamed(1, "migration:manual_intervention_required") # {}

\* A job failed at the retry ceiling of the schema phase.
C26_WitnessCeiling ==
  /\ jobs[1].pc = "done" /\ jobs[1].status = "failed"
  /\ jobs[1].phase = "schema_migration"
  /\ jobs[1].handled = 0

\* The recovery context of a job at its a-th fault in a row (none for a = 0).
contextAt(a) ==
  IF a = 0 THEN NoContext
  ELSE [ active |-> TRUE, attemptNumber |-> a, previousAttempts |-> a ]

Manual(d) == d.action = "manual_intervention" /\ d.requiresManualIntervention

\* C22: every unsuccessful decision of handleError is manual_intervention
\* with requiresManualIntervention set, whatever the code of the fault and
\* the attempt counter of the job (no strategy for the code, every strategy
\* passed over, a strategy that fails); on it the phase-runner marks the
\* phase failed and the job fails without another run of the phase.
C22_UnsuccessfulIsManual ==
  \A j \in JobIds :
    /\ jobs[j].pc = "handleError"
         => \A code \in RecoveryCodes, a \in 0..6, repairOk \in BOOLEAN :
              LET h == handleError(contextAt(a), code, checkpoints[j], repairOk)
              IN  ~h.result.success => Manual(h.result)
    /\ jobs[j].handled = 1 /\ ~jobs[j].decision.success
         => /\ Manual(jobs[j].decision)
            /\ jobs[j].progress.phases[jobs[j].phase] = "failed"
            /\ jobs[j].pc \in { "failed", "done" }
            /\ jobs[j].pc = "done" => jobs[j].status = "failed"

\* A job failed in the validation phase on a fault no strategy lists.
C22_Witness ==
  /\ jobs[1].pc = "done" /\ jobs[1].status = "failed"
  /\ jobs[1].phase = "validation"
  /\ jobs[1].fault.error_code = "UNKNOWN_ERROR"
  /\ findApplicableStrategies(jobs[1].fault.error_code) = << >>
  /\ jobs[1].handled = 1 /\ ~jobs[1].decision.success

\* The progress a checkpoint holds when it is read: its own scalar fields
\* and the content of the phases array its phases field refers to.
storedProgress(cp, js) ==
  [ overall_percentage |-> cp.progress.overall_percentage,
    current_phase |-> cp.progress.current_phase,
    phases |-> js[cp.progress.phases].progress.phases ]

\* C21: the progress stored in a checkpoint is a deep copy: as long as the
\* checkpoint is in the list of the job, no step of the program changes the
\* progress it holds (overall percentage, current phase, per-phase statuses).
C21_CheckpointProgressFrozen ==
  [][ \A j \in JobIds :
        \A k \in 1..Len(checkpoints[j]), m \in 1..Len(checkpoints'[j]) :
          checkpoints[j][k].id = checkpoints'[j][m].id
            => storedProgress(checkpoints'[j][m], jobs')
                 = storedProgress(checkpoints[j][k], jobs) ]_vars

notEligible(cp) == cp.phase \in { "validation", "cutover" }

\* C24: a checkpoint of the validation or cutover phase is not eligible for
\* rollback: rollbackToCheckpoint on it returns false, executes no rollback
\* instruction and leaves the checkpoint list of the job as it was, and the
\* partial-rollback strategy returns manual_intervention when the latest
\* checkpoint of the job is such a checkpoint.
C24_NoRollbackOfValidationCutover ==
  [][ \A j \in JobIds :
        LET cps == checkpoints[j]
        IN  /\ \A k \in 1..Len(cps) :
                  RollbackToCheckpoint(j, cps[k].id) /\ notEligible(cps[k])
                    => /\ lastCall'.result = "false"
                       /\ lastCall'.options.executed = << >>
                       /\ checkpoints'[j] = cps
            /\ Len(cps) > 0 /\ notEligible(cps[Len(cps)])
                  => /\ Manual(execute("partial-rollback", activeRecoveries[j],
                                       cps, TRUE).result)
                     /\ PartialRollback(j)
                          => /\ Manual(lastCall'.options.decision)
                             /\ ~lastCall'.options.decision.success
                             /\ checkpoints'[j] = cps ]_vars

\* rollbackToCheckpoint was refused for the validation checkpoint of a job
\* that has later checkpoints, which are all still there.
C24_Witness ==
  /\ lastCall.op = "rollbackToCheckpoint" /\ lastCall.result = "false"
  /\ \E k \in 1..Len(checkpoints[1]) :
        /\ checkpoints[1][k].id = lastCall.options.checkpointId
        /\ checkpoints[1][k].phase = "validation"
        /\ k < Len(checkpoints[1])

\* The partial-rollback strategy was refused on a cutover checkpoint.
C24_WitnessPartial ==
  /\ lastCall.op = "handleError" /\ lastCall.options.code = "CRITICAL_ERROR"
  /\ Len(checkpoints[1]) > 0
  /\ checkpoints[1][Len(checkpoints[1])].phase = "cutover"
  /\ activeRecoveries[1].attemptNumber = 1
  /\ Manual(lastCall.options.decision)

\* In the step, the fault log of every job keeps a suffix of what it held,
\* and no fault it drops is more recent than a fault that is kept.
KeepsMostRecent ==
  /\ \A j \in JobIds :
        /\ Len(errors'[j]) <= Len(errors[j]) + 1
        /\ \E d \in 0..Len(errors[j]) :
              \/ errors'[j] = SubSeq(errors[j], d + 1, Len(errors[j]))
              \/ /\ Len(errors'[j]) > 0
                 /\ SubSeq(errors'[j], 1, Len(errors'[j]) - 1)
                      = SubSeq(errors[j], d + 1, Len(errors[j]))
  /\ \A j1, j2 \in JobIds :
        \A k \in 1..Len(errors[j1]) :
          (\A i \in 1..Len(errors'[j1]) : errors'[j1][i].timestamp > errors[j1][k].timestamp)
            => \A i \in 1..Len(errors'[j2]) :
                 errors'[j2][i].timestamp >= errors[j1][k].timestamp

\* C25 as claimed: after every recordError and every cleanup tick the fault
\* log holds at most 1000 faults, the most recent ones by timestamp.
C25_LogBounded ==
  [][ recorded' <= keepErrors /\ KeepsMostRecent ]_vars

\* C25: after every cleanup tick the fault log holds at most 1000 faults,
\* the most recent ones by timestamp of those it held before the tick.
C25_TrimmedAtCleanup ==
  [][ lastCall'.op = "cleanupOldData"
        => /\ recorded' <= keepErrors
           /\ recorded' = Min(recorded, keepErrors)
           /\ KeepsMostRecent ]_vars

\* A cleanup tick found 1002 faults and left the 1000 made last.
C25_Witness ==
  /\ lastCall.op = "cleanupOldData"
  /\ recorded = keepErrors
  /\ errors[1][1].timestamp = 2
  /\ now = keepErrors + 2

\* C30: every accepted job eventually has status completed or failed, when
\* every collaborator call and every wait returns.
C30_EventuallyCompletedOrFailed ==
  \A j \in SoloJobs :
    Exists(j) ~> (jobs[j].pc = "done" /\ jobs[j].status \in { "completed", "failed" })

\* The job failed after four runs of the preparation executor, each of
\* which created the project and then polled thirty times in vain.
C30_Witness ==
  /\ jobs[1].pc = "done" /\ jobs[1].status = "failed"
  /\ jobs[1].phase = "preparation"
  /\ jobs[1].runs = maxRetries + 1
  /\ jobs[1].fault.message = "timeout"
  /\ jobs[1].created = maxRetries + 1

====
